---- MODULE Spec2Model ----
(***************************************************************************)
(* xlsx_loader/cli.py: load the sheets of XLSX workbooks into DuckDB, one  *)
(* table per sheet.  A Python str is a sequence of characters; a character *)
(* is a one-character string, except the two code points written by their  *)
(* Unicode names: "U+0130" (LATIN CAPITAL LETTER I WITH DOT ABOVE) and     *)
(* "U+0307" (COMBINING DOT ABOVE).                                         *)
(***************************************************************************)
EXTENDS Naturals, Integers, Sequences, FiniteSets, TLC

\* ------------------------------------------------------------------ bounds
\* longest input string given to sanitize_table_name
MaxLen == 3
\* most sheets in the workbook of the load-xlsx command
MaxSheets == 3
\* most sheets in one workbook of a load-all-xlsx directory
MaxBatchSheets == 1
\* most files matched by the pattern of load-all-xlsx
MaxFiles == 2

\* ------------------------------------------------- characters (str methods)
LowerLetters == {"a", "b", "c", "e", "h", "i", "q", "s", "t"}
UpperLetters == {"B", "Q", "U+0130"}
Digits == {"0", "1", "2", "3", "5", "8", "9"}

\* str.isalnum of one character: letters and digits; "_", " ", "-", ".",
\* "#" and the combining mark U+0307 are not alphanumeric
isalnum(c) == c \in LowerLetters \cup UpperLetters \cup Digits

\* str.isdigit of one character
isdigit(c) == c \in Digits

\* str.lower of one character: U+0130 lowercases to the two code points
\* "i" U+0307; every other character to one character
lower_char(c) ==
    CASE c = "B" -> <<"b">>
      [] c = "Q" -> <<"q">>
      [] c = "U+0130" -> <<"i", "U+0307">>
      [] OTHER -> <<c>>

RECURSIVE lower(_)
\* str.lower
lower(s) == IF s = <<>> THEN <<>> ELSE lower_char(Head(s)) \o lower(Tail(s))

\* str.replace(old, new) for a one-character old
replace(s, old, new) == [i \in 1..Len(s) |-> IF s[i] = old THEN new ELSE s[i]]

\* "".join(c for c in s if c.isalnum() or c == "_")
keep_identifier_chars(s) == SelectSeq(s, LAMBDA c : isalnum(c) \/ c = "_")

SHEET_PREFIX == <<"s", "h", "e", "e", "t", "_">>

sanitize_table_name(name) ==
    LET replaced == replace(replace(replace(name, " ", "_"), "-", "_"), ".", "_")
        sanitized == keep_identifier_chars(replaced)
    IN  IF sanitized # <<>> /\ isdigit(sanitized[1])
        THEN lower(SHEET_PREFIX \o sanitized)
        ELSE lower(sanitized)


\* --------------------------------------------------------------- variables
VARIABLES
    cmd,             \* the command run: "load_xlsx" or "load_all_xlsx"
    skip_errors,     \* --skip-errors/--no-skip-errors
    exit_code,       \* the process exit code, -1 while the process runs
    db,              \* the DuckDB file: table name -> contents of the table
    batch_pc,        \* position in load_all_xlsx
    xlsx_files,      \* load_all_xlsx: list(input_path.glob(file_pattern)), the stems
    fi,              \* load_all_xlsx: index of the file of the for loop (0: none)
    warnings,        \* load_all_xlsx: the files of the "Skipped file" lines printed
    lx_pc,           \* position in load_xlsx
    exc,             \* the exception in flight, "none" when there is none
    table_prefix,    \* load_xlsx: the table_prefix argument
    sheet_names,     \* load_xlsx: xl_file.sheet_names
    si,              \* load_xlsx: index of the sheet of the for loop
    loaded_sheets,   \* load_xlsx: (sheet_name, table_name, row_count, col_count)
    skipped_sheets,  \* load_xlsx: the formatted skip lines
    conn,            \* load_xlsx: the DuckDB connection: "none", "open", "closed"
    summary,         \* load_xlsx: the summaries printed (none, or one)
    reads,           \* history: the pd.read_excel calls of this load_xlsx call
    execs,           \* history: the conn.execute calls of this load_xlsx call
    written,         \* history: (file, table) of every table created or replaced
    faults,          \* history: the kinds of failure met during the run:
                     \* "missing_directory", "unreadable_workbook" (missing
                     \* or not a workbook), "unwritable_db", "sheet_error"
                     \* (a sheet failed and skip_errors is off)
    calls,           \* history: the files load_all_xlsx called load_xlsx for
    raised,          \* history: the files whose load_xlsx call raised
    san_name,        \* the argument of a call of sanitize_table_name alone
    san_pc,          \* "idle", "call", "once", "twice"
    san_out,         \* sanitize_table_name(san_name)
    san_again        \* sanitize_table_name(san_out)

sanVars == <<san_name, san_pc, san_out, san_again>>
optVars == <<cmd, skip_errors>>
batchVars == <<batch_pc, xlsx_files, fi, warnings, calls, raised>>
lxLocals == <<table_prefix, sheet_names, si, loaded_sheets, skipped_sheets,
              conn, summary, reads, execs>>
vars == <<cmd, skip_errors, exit_code, db, batch_pc, xlsx_files, fi, warnings,
          lx_pc, exc, table_prefix, sheet_names, si, loaded_sheets,
          skipped_sheets, conn, summary, reads, execs, written, faults, calls,
          raised, san_name, san_pc, san_out, san_again>>

\* ------------------------------------------------------------- environment
\* sheet names a workbook can hold: "b c", "b-c", "c"
SheetNames == {<<"b", " ", "c">>, <<"b", "-", "c">>, <<"c">>}

\* the sheet name lists of the workbooks with at most n sheets: a workbook
\* has at least one sheet and no two sheets of the same name
Workbooks(n) ==
    {w \in UNION {[1..k -> SheetNames] : k \in 1..n} :
        \A i, j \in DOMAIN w : i # j => w[i] # w[j]}

\* the values of --table-prefix tried: none, and "Q1"
CliPrefixes == {<<>>, <<"Q", "1">>}

\* the file stems a directory can hold: "a", "a-b", "B" and
\* "b_20250919_085132"
Stems == {<<"a">>, <<"a", "-", "b">>, <<"B">>,
          <<"b", "_", "2", "0", "2", "5", "0", "9", "1", "9",
            "_", "0", "8", "5", "1", "3", "2">>}

\* the results of input_path.glob(file_pattern): distinct files, any order
Listings ==
    {l \in UNION {[1..k -> Stems] : k \in 0..MaxFiles} :
        \A i, j \in DOMAIN l : i # j => l[i] # l[j]}

\* the DataFrames pd.read_excel returns: a header without rows, two rows of
\* one column
DataFrames == {[rows |-> 0, cols |-> 1], [rows |-> 2, cols |-> 1]}

\* str(e) of the error of a read and of a write
READ_ERROR == <<"r">>
WRITE_ERROR == <<"w">>

\* instances of Exception: typer.Exit is click's Exit, a RuntimeError
Exceptions == {"Exit(1)", "OSError", "Error"}


\* ------------------------------------------------------ load_xlsx, helpers
\* faulty variant of empty: no DataFrame counts as empty
empty_never(df) == FALSE

\* df.empty: no rows, or no columns
empty(df) == df.rows = 0 \/ df.cols = 0

\* f"{sheet_name} (empty)"
skipped_empty(sheet_name) ==
    sheet_name \o <<" ", "(", "e", "m", "p", "t", "y", ")">>

\* f"{sheet_name} (error: {str(e)})"
skipped_error(sheet_name, msg) ==
    sheet_name \o <<" ", "(", "e", "r", "r", "o", "r", ":", " ">> \o msg \o <<")">>

\* faulty variant of make_table_name: the prefix is left out
make_table_name_no_prefix(sheet_name, prefix) == sanitize_table_name(sheet_name)

\* faulty variant of make_table_name: the sheet name is left out
make_table_name_no_sheet(sheet_name, prefix) == prefix \o <<"_">>

\* the table name of a sheet: the sanitized sheet name, after the prefix and
\* "_" when a prefix is given
make_table_name(sheet_name, prefix) ==
    LET table_name == sanitize_table_name(sheet_name)
    IN  IF prefix # <<>> THEN prefix \o <<"_">> \o table_name ELSE table_name

\* the key of a table in the catalog of DuckDB, where the names of tables
\* are case-insensitive
catalog_key(table_name) == lower(table_name)

\* CREATE OR REPLACE TABLE table_name AS SELECT * FROM df
create_or_replace(d, table_name, contents) ==
    [n \in DOMAIN d \cup {catalog_key(table_name)} |->
        IF n = catalog_key(table_name) THEN contents ELSE d[n]]

\* the file the running load_xlsx call loads: 0 for the load-xlsx command
CurrentFile == IF cmd = "load_all_xlsx" THEN fi ELSE 0

\* ------------------------------------------------------ load_xlsx, actions
\* xlsx_path.exists() and duckdb_path.parent.mkdir(): both before the try
LxValidate ==
    /\ lx_pc = "start"
    /\ \/ /\ lx_pc' = "raised"
          /\ exc' = "Exit(1)"
          /\ faults' = faults \cup {"unreadable_workbook"}
       \/ /\ lx_pc' = "raised"
          /\ exc' = "OSError"
          /\ faults' = faults \cup {"unwritable_db"}
       \/ /\ lx_pc' = "open"
          /\ UNCHANGED <<exc, faults>>
    /\ UNCHANGED <<optVars, exit_code, db, batchVars, lxLocals, written, sanVars>>

\* pd.ExcelFile, sheet_names, duckdb.connect, the two empty lists
LxOpen ==
    /\ lx_pc = "open"
    /\ \/ /\ lx_pc' = "except"
          /\ exc' = "Error"
          /\ faults' = faults \cup {"unreadable_workbook"}
          /\ UNCHANGED <<sheet_names, conn, si>>
       \/ \E names \in Workbooks(IF cmd = "load_all_xlsx"
                                 THEN MaxBatchSheets ELSE MaxSheets) :
            /\ sheet_names' = names
            /\ \/ /\ lx_pc' = "except"
                  /\ exc' = "Error"
                  /\ faults' = faults \cup {"unwritable_db"}
                  /\ UNCHANGED <<conn, si>>
               \/ /\ conn' = "open"
                  /\ si' = 1
                  /\ lx_pc' = "loop"
                  /\ UNCHANGED <<exc, faults>>
    /\ UNCHANGED <<optVars, exit_code, db, batchVars, table_prefix,
                   loaded_sheets, skipped_sheets, summary, reads, execs,
                   written, sanVars>>

\* faulty variant of SheetError: the sheet is skipped whatever skip_errors is
SheetErrorAlwaysSkips(sheet_name, msg) ==
    /\ skipped_sheets' = Append(skipped_sheets, skipped_error(sheet_name, msg))
    /\ si' = si + 1
    /\ UNCHANGED <<lx_pc, exc, faults>>

\* faulty variant of SheetError: the run is aborted whatever skip_errors is
SheetErrorAlwaysAborts(sheet_name, msg) ==
    /\ lx_pc' = "except"
    /\ exc' = "Exit(1)"
    /\ faults' = faults \cup {"sheet_error"}
    /\ UNCHANGED <<skipped_sheets, si>>

\* the except clause of the loop body: skip the sheet, or raise typer.Exit(1)
\* which the except clause of the function catches
SheetError(sheet_name, msg) ==
    IF skip_errors
    THEN /\ skipped_sheets' = Append(skipped_sheets, skipped_error(sheet_name, msg))
         /\ si' = si + 1
         /\ UNCHANGED <<lx_pc, exc, faults>>
    ELSE /\ lx_pc' = "except"
         /\ exc' = "Exit(1)"
         /\ faults' = faults \cup {"sheet_error"}
         /\ UNCHANGED <<skipped_sheets, si>>

\* one turn of the loop over sheet_names
LxSheet ==
    /\ lx_pc = "loop"
    /\ si <= Len(sheet_names)
    /\ LET sheet_name == sheet_names[si]
           table_name == make_table_name(sheet_name, table_prefix)
       IN  \/ \* pd.read_excel raises
              /\ reads' = Append(reads, [sheet |-> sheet_name, ok |-> FALSE,
                                         rows |-> 0, cols |-> 0])
              /\ SheetError(sheet_name, READ_ERROR)
              /\ UNCHANGED <<db, loaded_sheets, execs, written>>
           \/ \E df \in DataFrames :
                /\ reads' = Append(reads, [sheet |-> sheet_name, ok |-> TRUE,
                                           rows |-> df.rows, cols |-> df.cols])
                /\ IF empty(df)
                   THEN /\ skipped_sheets' =
                              Append(skipped_sheets, skipped_empty(sheet_name))
                        /\ si' = si + 1
                        /\ UNCHANGED <<db, loaded_sheets, execs, written,
                                       lx_pc, exc, faults>>
                   ELSE /\ execs' = Append(execs, [sheet |-> sheet_name,
                                                   table |-> table_name])
                        /\ \/ \* conn.execute raises; it does for no table name
                              /\ SheetError(sheet_name, WRITE_ERROR)
                              /\ UNCHANGED <<db, loaded_sheets, written>>
                           \/ /\ table_name # <<>>
                              /\ db' = create_or_replace(db, table_name,
                                         [name |-> table_name, file |-> CurrentFile,
                                          sheet |-> sheet_name,
                                          rows |-> df.rows, cols |-> df.cols])
                              /\ written' = written \cup
                                    {[file |-> CurrentFile, table |-> table_name]}
                              /\ loaded_sheets' = Append(loaded_sheets,
                                    <<sheet_name, table_name, df.rows, df.cols>>)
                              /\ si' = si + 1
                              /\ UNCHANGED <<skipped_sheets, lx_pc, exc, faults>>
    /\ UNCHANGED <<optVars, exit_code, batchVars, table_prefix, sheet_names,
                   conn, summary, sanVars>>

\* conn.close() after the loop
LxClose ==
    /\ lx_pc = "loop"
    /\ si > Len(sheet_names)
    /\ conn' = "closed"
    /\ lx_pc' = "summary"
    /\ UNCHANGED <<optVars, exit_code, db, batchVars, exc, table_prefix,
                   sheet_names, si, loaded_sheets, skipped_sheets, summary,
                   reads, execs, written, faults, sanVars>>

\* the summary lines
LxSummary ==
    /\ lx_pc = "summary"
    /\ summary' = <<[loaded |-> loaded_sheets, skipped |-> skipped_sheets]>>
    /\ lx_pc' = "returned"
    /\ UNCHANGED <<optVars, exit_code, db, batchVars, exc, table_prefix,
                   sheet_names, si, loaded_sheets, skipped_sheets, conn,
                   reads, execs, written, faults, sanVars>>

\* the except clause of the function: print the error, raise typer.Exit(1)
LxExcept ==
    /\ lx_pc = "except"
    /\ exc \in Exceptions
    /\ exc' = "Exit(1)"
    /\ lx_pc' = "raised"
    /\ UNCHANGED <<optVars, exit_code, db, batchVars, lxLocals, written,
                   faults, sanVars>>


\* -------------------------------------------------- load_all_xlsx, helpers
\* r'_\d{8}_\d{6}': the digits of the date and of the time of a timestamp
DATE_DIGITS == 8
TIME_DIGITS == 6

\* the pattern _\d{8}_\d{6} matches s at position i
timestamp_at(s, i) ==
    /\ i + DATE_DIGITS + 1 + TIME_DIGITS <= Len(s)
    /\ s[i] = "_"
    /\ \A k \in 1..DATE_DIGITS : isdigit(s[i + k])
    /\ s[i + DATE_DIGITS + 1] = "_"
    /\ \A k \in 1..TIME_DIGITS : isdigit(s[i + DATE_DIGITS + 1 + k])

RECURSIVE re_sub_from(_, _)
\* re.sub(r'_\d{8}_\d{6}', '', s) from position i on: every match, left to
\* right, is removed
re_sub_from(s, i) ==
    IF i > Len(s) THEN <<>>
    ELSE IF timestamp_at(s, i)
         THEN re_sub_from(s, i + DATE_DIGITS + 1 + TIME_DIGITS + 1)
         ELSE <<s[i]>> \o re_sub_from(s, i + 1)

\* the table prefix of a file: its stem without timestamps, " " and "-"
\* replaced by "_"
derive_prefix(stem) == replace(replace(re_sub_from(stem, 1), " ", "_"), "-", "_")

\* the locals of load_xlsx at its entry with a prefix
EnterLoadXlsx(prefix) ==
    /\ lx_pc' = "start"
    /\ exc' = "none"
    /\ table_prefix' = prefix
    /\ sheet_names' = <<>>
    /\ si' = 0
    /\ loaded_sheets' = <<>>
    /\ skipped_sheets' = <<>>
    /\ conn' = "none"
    /\ summary' = <<>>
    /\ reads' = <<>>
    /\ execs' = <<>>

\* the frame of load_xlsx is gone once load_all_xlsx has taken its outcome
LeaveLoadXlsx ==
    /\ lx_pc' = "idle"
    /\ exc' = "none"
    /\ table_prefix' = <<>>
    /\ sheet_names' = <<>>
    /\ si' = 0
    /\ loaded_sheets' = <<>>
    /\ skipped_sheets' = <<>>
    /\ conn' = "none"
    /\ summary' = <<>>
    /\ reads' = <<>>
    /\ execs' = <<>>

\* -------------------------------------------------- load_all_xlsx, actions
\* input_path.exists(), glob, the message when no file matches
BatchList ==
    /\ batch_pc = "start"
    /\ \/ /\ batch_pc' = "raised"
          /\ faults' = faults \cup {"missing_directory"}
          /\ UNCHANGED <<xlsx_files, fi>>
       \/ \E listing \in Listings :
            /\ xlsx_files' = listing
            /\ IF listing = <<>>
               THEN batch_pc' = "returned" /\ fi' = fi
               ELSE batch_pc' = "loop" /\ fi' = 1
            /\ UNCHANGED faults
    /\ UNCHANGED <<optVars, exit_code, db, warnings, calls, raised, lx_pc, exc,
                   lxLocals, written, sanVars>>

\* the loop body up to the call: the prefix of the file, load_xlsx called
BatchCall ==
    /\ batch_pc = "loop"
    /\ fi <= Len(xlsx_files)
    /\ EnterLoadXlsx(derive_prefix(xlsx_files[fi]))
    /\ calls' = Append(calls, fi)
    /\ batch_pc' = "call"
    /\ UNCHANGED <<optVars, exit_code, db, xlsx_files, fi, warnings, raised,
                   written, faults, sanVars>>

\* load_xlsx returned: the next file
BatchNext ==
    /\ batch_pc = "call"
    /\ lx_pc = "returned"
    /\ LeaveLoadXlsx
    /\ fi' = fi + 1
    /\ batch_pc' = "loop"
    /\ UNCHANGED <<optVars, exit_code, db, xlsx_files, warnings, calls, raised,
                   written, faults, sanVars>>

\* faulty variant of FileError: the file is skipped whatever skip_errors is
FileErrorAlwaysSkips ==
    /\ warnings' = Append(warnings, xlsx_files[fi])
    /\ fi' = fi + 1
    /\ batch_pc' = "loop"

\* the except clause of the loop body: warn and go on, or raise again
FileError ==
    IF skip_errors
    THEN /\ warnings' = Append(warnings, xlsx_files[fi])
         /\ fi' = fi + 1
         /\ batch_pc' = "loop"
    ELSE /\ batch_pc' = "raised"
         /\ UNCHANGED <<fi, warnings>>

\* load_xlsx raised an Exception
BatchExcept ==
    /\ batch_pc = "call"
    /\ lx_pc = "raised"
    /\ exc \in Exceptions
    /\ raised' = raised \cup {fi}
    /\ FileError
    /\ LeaveLoadXlsx
    /\ UNCHANGED <<optVars, exit_code, db, xlsx_files, calls, written, faults,
                   sanVars>>

\* the loop is over
BatchDone ==
    /\ batch_pc = "loop"
    /\ fi > Len(xlsx_files)
    /\ batch_pc' = "returned"
    /\ UNCHANGED <<optVars, exit_code, db, xlsx_files, fi, warnings, calls,
                   raised, lx_pc, exc, lxLocals, written, faults, sanVars>>

\* ------------------------------------------------------------ the process
\* the outcome of the command: "running", "returned" or "raised"
CommandOutcome ==
    IF cmd = "load_all_xlsx"
    THEN IF batch_pc \in {"returned", "raised"} THEN batch_pc ELSE "running"
    ELSE IF lx_pc \in {"returned", "raised"} THEN lx_pc ELSE "running"

\* faulty variant of exit_status: the process always exits with 0
exit_status_zero(outcome) == 0

\* the exit code app() gives the process: 0 when the command returned, 1
\* when it raised typer.Exit(1) or another exception
exit_status(outcome) == IF outcome = "returned" THEN 0 ELSE 1

\* app(): the process ends
ProcessExit ==
    /\ exit_code = -1
    /\ CommandOutcome # "running"
    /\ exit_code' = exit_status(CommandOutcome)
    /\ UNCHANGED <<optVars, db, batchVars, lx_pc, exc, lxLocals, written,
                   faults, sanVars>>

Init ==
    /\ cmd \in {"load_xlsx", "load_all_xlsx"}
    /\ skip_errors \in BOOLEAN
    /\ exit_code = -1
    /\ db = <<>>
    /\ batch_pc = IF cmd = "load_all_xlsx" THEN "start" ELSE "none"
    /\ xlsx_files = <<>>
    /\ fi = 0
    /\ warnings = <<>>
    /\ lx_pc = IF cmd = "load_xlsx" THEN "start" ELSE "idle"
    /\ exc = "none"
    /\ table_prefix \in (IF cmd = "load_xlsx" THEN CliPrefixes ELSE {<<>>})
    /\ sheet_names = <<>>
    /\ si = 0
    /\ loaded_sheets = <<>>
    /\ skipped_sheets = <<>>
    /\ conn = "none"
    /\ summary = <<>>
    /\ reads = <<>>
    /\ execs = <<>>
    /\ written = {}
    /\ faults = {}
    /\ calls = <<>>
    /\ raised = {}
    /\ san_name = <<>>
    /\ san_pc = "idle"
    /\ san_out = <<>>
    /\ san_again = <<>>

Next ==
    \/ LxValidate
    \/ LxOpen
    \/ LxSheet
    \/ LxClose
    \/ LxSummary
    \/ LxExcept
    \/ BatchList
    \/ BatchCall
    \/ BatchNext
    \/ BatchExcept
    \/ BatchDone
    \/ ProcessExit

Spec == Init /\ [][Next]_vars

\* ------------------------------------------- sanitize_table_name by itself
\* the characters of the arguments tried
SanChars == {"a", "B", "1", "_", " ", "-", ".", "#", "U+0130"}

SanNames == UNION {[1..k -> SanChars] : k \in 0..MaxLen}

\* sanitize_table_name(name)
SanitizeOnce ==
    /\ san_pc = "call"
    /\ san_out' = sanitize_table_name(san_name)
    /\ san_pc' = "once"
    /\ UNCHANGED <<san_name, san_again, optVars, exit_code, db, batchVars,
                   lx_pc, exc, lxLocals, written, faults>>

\* sanitize_table_name of the result
SanitizeAgain ==
    /\ san_pc = "once"
    /\ san_again' = sanitize_table_name(san_out)
    /\ san_pc' = "twice"
    /\ UNCHANGED <<san_name, san_out, optVars, exit_code, db, batchVars,
                   lx_pc, exc, lxLocals, written, faults>>

InitSanitize ==
    /\ san_name \in SanNames
    /\ san_pc = "call"
    /\ san_out = <<>>
    /\ san_again = <<>>
    /\ cmd = "none"
    /\ skip_errors = TRUE
    /\ exit_code = -1
    /\ db = <<>>
    /\ batch_pc = "none"
    /\ xlsx_files = <<>>
    /\ fi = 0
    /\ warnings = <<>>
    /\ lx_pc = "idle"
    /\ exc = "none"
    /\ table_prefix = <<>>
    /\ sheet_names = <<>>
    /\ si = 0
    /\ loaded_sheets = <<>>
    /\ skipped_sheets = <<>>
    /\ conn = "none"
    /\ summary = <<>>
    /\ reads = <<>>
    /\ execs = <<>>
    /\ written = {}
    /\ faults = {}
    /\ calls = <<>>
    /\ raised = {}

NextSanitize == SanitizeOnce \/ SanitizeAgain

SpecSanitize == InitSanitize /\ [][NextSanitize]_vars


\* ================================================================== claims
\* the elements of a sequence
Range(q) == {q[i] : i \in DOMAIN q}

\* s is an initial segment of t
IsPrefix(s, t) == Len(s) <= Len(t) /\ SubSeq(t, 1, Len(s)) = s

\* the i-th read of the running load_xlsx call failed: pd.read_excel raised,
\* or it returned rows and the sheet was not loaded (conn.execute raised)
ErrorAt(i) ==
    \/ ~reads[i].ok
    \/ /\ reads[i].rows > 0
       /\ \A l \in Range(loaded_sheets) : l[1] # reads[i].sheet

\* str(e) of the error of the i-th read
MessageAt(i) == IF reads[i].ok THEN WRITE_ERROR ELSE READ_ERROR

\* each loaded entry's table is in the database and holds the rows of the
\* last sheet loaded under that name
LoadedTablesIntact ==
    \A i \in DOMAIN loaded_sheets :
        LET key == catalog_key(loaded_sheets[i][2])
            last == CHOOSE j \in DOMAIN loaded_sheets :
                        /\ loaded_sheets[j][2] = loaded_sheets[i][2]
                        /\ \A k \in DOMAIN loaded_sheets :
                              loaded_sheets[k][2] = loaded_sheets[i][2] => k <= j
        IN  /\ key \in DOMAIN db
            /\ db[key].file = CurrentFile
            /\ db[key].sheet = loaded_sheets[last][1]
            /\ db[key].rows = loaded_sheets[last][3]
            /\ db[key].cols = loaded_sheets[last][4]

\* the sanitized names of the sheets of the workbook are pairwise distinct
SanitizedNamesDistinct ==
    \A i, j \in DOMAIN sheet_names :
        i # j => sanitize_table_name(sheet_names[i]) # sanitize_table_name(sheet_names[j])

\* no two loaded entries carry the same table name
LoadedNamesDistinct ==
    \A i, j \in DOMAIN loaded_sheets :
        i # j => loaded_sheets[i][2] # loaded_sheets[j][2]

\* C1, as claimed: in one run of load_xlsx over a workbook (its sheet names
\* are pairwise distinct), no two loaded entries carry the same table name.
C1_UniqueTableNames == LoadedNamesDistinct

\* C1, amended: when the sanitized sheet names of the workbook are pairwise
\* distinct, no two loaded entries of the run carry the same table name, and
\* the database holds one table of this run per loaded entry, with the rows
\* of its sheet.
C1_UniqueWhenSanitizedDistinct ==
    SanitizedNamesDistinct =>
        /\ LoadedNamesDistinct
        /\ LoadedTablesIntact
        /\ Cardinality({k \in DOMAIN db : db[k].file = CurrentFile})
             >= Len(loaded_sheets)
        /\ Cardinality({loaded_sheets[i][2] : i \in DOMAIN loaded_sheets})
             = Len(loaded_sheets)

C1_Witness ==
    /\ cmd = "load_xlsx"
    /\ table_prefix # <<>>
    /\ SanitizedNamesDistinct
    /\ Len(loaded_sheets) = 2
    /\ exit_code = 0

\* C2: with skip_errors off, when the read or the write of sheet N fails,
\* load_xlsx stops there: sheet N is the last sheet read and the last one
\* written to, the call does not return but raises, the exit code is 1, and
\* the tables of the sheets loaded before N are in the database with their
\* rows.
C2_AbortKeepsEarlierTables ==
    ~skip_errors =>
        \A i \in DOMAIN reads :
            ErrorAt(i) =>
                /\ Len(reads) = i
                /\ si = i
                /\ \A k \in DOMAIN reads : reads[k].sheet = sheet_names[k]
                /\ \A e \in Range(execs) :
                      \E k \in 1..i : sheet_names[k] = e.sheet
                /\ lx_pc \in {"except", "raised"}
                /\ summary = <<>>
                /\ exit_code \in {-1, 1}
                /\ Len(loaded_sheets) <= i - 1
                /\ LoadedTablesIntact

C2_Witness ==
    /\ cmd = "load_xlsx"
    /\ ~skip_errors
    /\ Len(sheet_names) = 3
    /\ Len(reads) = 2
    /\ ErrorAt(2)
    /\ Len(loaded_sheets) = 1
    /\ exit_code = 1

\* C3: with skip_errors on, a failed read or write of a sheet is recorded as
\* the skip line "<sheet> (error: <message>)", the sheets are read in the
\* order of the workbook and the loop goes on to the end, the call returns
\* after the summary, which carries the line, and the exit code of
\* load-xlsx is 0.
C3_SkipRecordsAndContinues ==
    skip_errors =>
        /\ \A k \in DOMAIN reads : reads[k].sheet = sheet_names[k]
        /\ \A i \in DOMAIN reads :
              ErrorAt(i) =>
                /\ skipped_error(reads[i].sheet, MessageAt(i)) \in Range(skipped_sheets)
                /\ lx_pc \in {"loop", "summary", "returned"}
                /\ si = Len(reads) + 1
                /\ lx_pc = "loop" => ENABLED (LxSheet \/ LxClose)
                /\ lx_pc = "summary" => ENABLED LxSummary
                /\ lx_pc \in {"summary", "returned"} => Len(reads) = Len(sheet_names)
                /\ lx_pc = "returned" =>
                      /\ summary # <<>>
                      /\ summary[1].skipped = skipped_sheets
                      /\ summary[1].loaded = loaded_sheets
                /\ (cmd = "load_xlsx" /\ exit_code # -1) => exit_code = 0

C3_Witness ==
    /\ cmd = "load_xlsx"
    /\ skip_errors
    /\ Len(reads) = 3
    /\ ErrorAt(2)
    /\ ~reads[2].ok
    /\ Len(loaded_sheets) = 2
    /\ exit_code = 0

\* C4: a sheet whose read returns no rows is recorded as the skip line
\* "<sheet> (empty)"; no conn.execute is issued for it, it is in no loaded
\* entry and no table of the database comes from it.
C4_EmptySheetSkipped ==
    \A i \in DOMAIN reads :
        (reads[i].ok /\ reads[i].rows = 0) =>
            /\ skipped_empty(reads[i].sheet) \in Range(skipped_sheets)
            /\ \A e \in Range(execs) : e.sheet # reads[i].sheet
            /\ \A l \in Range(loaded_sheets) : l[1] # reads[i].sheet
            /\ \A k \in DOMAIN db :
                  ~(db[k].file = CurrentFile /\ db[k].sheet = reads[i].sheet)

C4_Witness ==
    /\ ~skip_errors
    /\ table_prefix # <<>>
    /\ Len(reads) = 2
    /\ reads[1].ok /\ reads[1].rows = 0
    /\ Len(loaded_sheets) = 1
    /\ lx_pc = "returned"


\* C5, as claimed: the result of sanitize_table_name holds only lowercase
\* alphanumerics and underscores, and when the first character of the
\* argument is a digit the result starts with a letter or an underscore.
C5_OnlyIdentifierChars ==
    san_pc \in {"once", "twice"} =>
        /\ \A c \in Range(san_out) :
              \/ c = "_"
              \/ isalnum(c) /\ c \notin UpperLetters
        /\ (san_name # <<>> /\ isdigit(san_name[1])) =>
              /\ san_out # <<>>
              /\ san_out[1] \in LowerLetters \cup {"_"}

\* C6, as claimed: sanitize_table_name of a result of sanitize_table_name is
\* that result.
C6_Idempotent == san_pc = "twice" => san_again = san_out

\* the kinds of failure the claim C7 calls fatal: the input path is missing,
\* the database or its directory cannot be written or opened, or an error
\* of a sheet or of a file with skip_errors off
ClaimedFatal ==
    \/ "missing_directory" \in faults
    \/ cmd = "load_xlsx" /\ "unreadable_workbook" \in faults
    \/ "unwritable_db" \in faults
    \/ ~skip_errors /\ faults # {}

\* C7, as claimed: the exit code is 1 when a fatal condition occurred during
\* the run and 0 otherwise.
C7_ExitCodeOneIffFatal ==
    exit_code # -1 => exit_code = (IF ClaimedFatal THEN 1 ELSE 0)

\* C7, amended: load-xlsx exits with 1 when the workbook is missing or not
\* readable, the database or its directory cannot be written or opened, or a
\* sheet fails with skip_errors off; load-all-xlsx exits with 1 when the
\* directory is missing or, with skip_errors off, when the load of a file
\* fails; with skip_errors on load-all-xlsx skips a file whose load fails,
\* whatever the failure, and exits with 0; every other run exits with 0.
C7_ExitCode ==
    exit_code # -1 =>
        exit_code = (IF cmd = "load_all_xlsx" /\ skip_errors
                     THEN (IF "missing_directory" \in faults THEN 1 ELSE 0)
                     ELSE (IF faults # {} THEN 1 ELSE 0))

C7_Witness ==
    /\ cmd = "load_all_xlsx"
    /\ skip_errors
    /\ "unwritable_db" \in faults
    /\ Len(calls) = 2
    /\ exit_code = 0

\* C8: in load_all_xlsx, when load_xlsx raises for a file: with skip_errors
\* on a warning is printed for the file and the loop goes on, so that at the
\* end load_xlsx was called for every file; with skip_errors off the error
\* leaves load_all_xlsx, no later file is processed and the exit code is 1;
\* either way every table created so far is still in the database.
C8_FileErrorSkippedOrPropagated ==
    /\ \A w \in written : catalog_key(w.table) \in DOMAIN db
    /\ raised # {} =>
          IF skip_errors
          THEN /\ batch_pc # "raised"
               /\ Len(warnings) = Cardinality(raised)
               /\ \A f \in raised : xlsx_files[f] \in Range(warnings)
               /\ batch_pc = "loop" => ENABLED (BatchCall \/ BatchDone)
               /\ batch_pc = "returned" =>
                     calls = [k \in 1..Len(xlsx_files) |-> k]
               /\ exit_code \in {-1, 0}
          ELSE /\ batch_pc = "raised"
               /\ warnings = <<>>
               /\ raised = {fi}
               /\ calls = [k \in 1..fi |-> k]
               /\ exit_code \in {-1, 1}

C8_Witness ==
    /\ skip_errors
    /\ raised = {1}
    /\ Len(xlsx_files) = 2
    /\ calls = <<1, 2>>
    /\ written # {}
    /\ exit_code = 0

\* the table prefix load_all_xlsx gives the f-th file
PrefixOf(f) == derive_prefix(xlsx_files[f])

\* what a prefix puts before the sanitized sheet name, without letter case
Tag(prefix) == IF prefix = <<>> THEN <<>> ELSE lower(prefix \o <<"_">>)

\* one of two prefixes, with its "_", starts the other one, or the two are
\* the same but for letter case
PrefixesOverlap(p, q) == IsPrefix(Tag(p), Tag(q)) \/ IsPrefix(Tag(q), Tag(p))

\* C9, as claimed: two files of a load_all_xlsx run whose derived prefixes
\* differ have no table name in common.
C9_DistinctPrefixesNoCollision ==
    cmd = "load_all_xlsx" =>
        \A w1, w2 \in written :
            (w1.file # w2.file /\ PrefixOf(w1.file) # PrefixOf(w2.file))
                => w1.table # w2.table

\* C9, amended: two files of a load_all_xlsx run whose derived prefixes do
\* not overlap (neither prefix followed by "_" starts the other prefix, and
\* they differ by more than letter case) have no table in common, and the
\* tables of the one still hold what it wrote after the other is processed.
C9_NoCollisionUnlessPrefixesOverlap ==
    cmd = "load_all_xlsx" =>
        /\ \A w1, w2 \in written :
              (w1.file # w2.file /\ ~PrefixesOverlap(PrefixOf(w1.file), PrefixOf(w2.file)))
                  => catalog_key(w1.table) # catalog_key(w2.table)
        /\ \A w \in written :
              LET t == db[catalog_key(w.table)]
              IN  t.file # w.file => PrefixesOverlap(PrefixOf(t.file), PrefixOf(w.file))

C9_Witness ==
    /\ cmd = "load_all_xlsx"
    /\ exit_code = 0
    /\ \E w1, w2 \in written :
          /\ w1.file = 1
          /\ w2.file = 2
          /\ PrefixOf(1) # <<>>
          /\ ~PrefixesOverlap(PrefixOf(1), PrefixOf(2))
          /\ db[catalog_key(w1.table)].file = 1
          /\ db[catalog_key(w2.table)].file = 2

\* C10, as claimed: a load_xlsx call that opened the connection has closed
\* it when the call ends, whether it returns or raises.
C10_ConnectionClosedAtEnd ==
    lx_pc \in {"returned", "raised"} => conn # "open"

====
